---- MODULE Spec2Model ----
(***************************************************************************)
(* Model of scripts/batch_assembly.py: the batch driver that reads a       *)
(* sample manifest, runs get_organelle_from_reads.py once per accepted     *)
(* sample, and writes batch_assembly_summary.txt.                          *)
(*                                                                         *)
(* A manifest is a sequence of text lines; a line is a sequence of         *)
(* one-character strings.  Every line of the file ends with a line break.  *)
(* The rows of the file are those of Python's csv.reader, whose parser is  *)
(* modelled character by character.                                        *)
(*                                                                         *)
(* Scope: os.makedirs (line 192) succeeds and the directory it creates is  *)
(* writable, and the interpreter is not interrupted from outside.          *)
(***************************************************************************)
EXTENDS Integers, Sequences, FiniteSets, TLC

VARIABLES
    sample_file,        \* [state, lines]: the file named by --samples
    continue_on_error,  \* args.continue_on_error
    pc,                 \* position of main()
    output_dir_made,    \* os.makedirs(args.output_dir) has run
    rows,               \* the rows csv.reader yields for the file
    line_num,           \* rows consumed so far by the for loop of read_samples
    samples,            \* list built by read_samples
    warnings,           \* "Warning: ..." lines printed by read_samples
    outcome,            \* what the external process does for sample k
    i,                  \* loop index of main()'s for loop (1-indexed)
    calls,              \* sample indices for which subprocess.run was called
    results,            \* list built by main()
    summary,            \* content of batch_assembly_summary.txt, <<>> if absent
    summary_calls,      \* number of calls of generate_summary
    exit_code           \* status passed to sys.exit, -1 while running

vars == <<sample_file, continue_on_error, pc, output_dir_made, rows, line_num,
          samples, warnings, outcome, i, calls, results, summary,
          summary_calls, exit_code>>

(***************************************************************************)
(* Bounds and input alphabet                                               *)
(***************************************************************************)
MaxLines == 2

Comma == ","
Quote == "\""
Space == " "
NL    == "\n"
EOL   == "EOL"      \* the end-of-line sentinel the csv reader feeds itself

\* Paths that exist on disk (os.path.exists); every other path is missing.
ExistingFiles == { <<"a">>, <<"b">> }

\* The manifest lines the inputs are drawn from.
LineSet ==
    { <<"s", Comma, "a", Comma, "b">>,                          \* s,a,b
      <<Space, "t", Space, Comma, "a", Space, Comma, Space, "b">>, \* " t ,a , b"
      <<"s", Comma, "a">>,                                      \* s,a
      <<"t", Comma, "a", Comma, "b", Comma, "a">>,              \* t,a,b,a
      <<>>,                                                     \* empty line
      <<Quote, "s", Comma, "t", Quote, Comma, "a", Comma, "b">>, \* "s,t",a,b
      <<"t", Comma, Quote, "a">>,                               \* t,"a
      <<"s", Comma, "m", Comma, "b">>,                          \* s,m,b
      <<"t", Comma, "a", Comma, "m">>,                          \* t,a,m
      <<"t", Comma, "m", Comma, "n">>,                          \* t,m,n
      <<Comma, "a", Comma, "b">> }                              \* ,a,b

Manifests == UNION { [1..n -> LineSet] : n \in 0..MaxLines }

FileStates == {"ok", "missing", "unreadable"}

\* exit status 0, non-zero exit status, executable cannot be started
Outcomes == {"exit0", "nonzero", "oserror"}

(***************************************************************************)
(* csv.reader(f) with the default dialect "excel": delimiter ',',          *)
(* quotechar '"', doublequote, no escapechar, not strict.                  *)
(***************************************************************************)
ParserReset == [state |-> "START_RECORD", field |-> <<>>, fields |-> <<>>]

parse_save_field(p) ==
    [p EXCEPT !.fields = Append(p.fields, p.field), !.field = <<>>]

parse_add_char(p, c) == [p EXCEPT !.field = Append(p.field, c)]

AfterLineEnd(c) == IF c = EOL THEN "START_RECORD" ELSE "EAT_CRNL"

StartField(p, c) ==
    IF c \in {NL, EOL}
    THEN [parse_save_field(p) EXCEPT !.state = AfterLineEnd(c)]
    ELSE IF c = Quote THEN [p EXCEPT !.state = "IN_QUOTED_FIELD"]
    ELSE IF c = Comma THEN parse_save_field(p)
    ELSE [parse_add_char(p, c) EXCEPT !.state = "IN_FIELD"]

parse_process_char(p, c) ==
    CASE p.state = "START_RECORD" ->
            IF c = EOL THEN p
            ELSE IF c = NL THEN [p EXCEPT !.state = "EAT_CRNL"]
            ELSE StartField([p EXCEPT !.state = "START_FIELD"], c)
      [] p.state = "START_FIELD" -> StartField(p, c)
      [] p.state = "IN_FIELD" ->
            IF c \in {NL, EOL}
            THEN [parse_save_field(p) EXCEPT !.state = AfterLineEnd(c)]
            ELSE IF c = Comma
            THEN [parse_save_field(p) EXCEPT !.state = "START_FIELD"]
            ELSE parse_add_char(p, c)
      [] p.state = "IN_QUOTED_FIELD" ->
            IF c = EOL THEN p
            ELSE IF c = Quote THEN [p EXCEPT !.state = "QUOTE_IN_QUOTED_FIELD"]
            ELSE parse_add_char(p, c)
      [] p.state = "QUOTE_IN_QUOTED_FIELD" ->
            IF c = Quote
            THEN [parse_add_char(p, c) EXCEPT !.state = "IN_QUOTED_FIELD"]
            ELSE IF c = Comma
            THEN [parse_save_field(p) EXCEPT !.state = "START_FIELD"]
            ELSE IF c \in {NL, EOL}
            THEN [parse_save_field(p) EXCEPT !.state = AfterLineEnd(c)]
            ELSE [parse_add_char(p, c) EXCEPT !.state = "IN_FIELD"]
      [] p.state = "EAT_CRNL" ->
            IF c = EOL THEN [p EXCEPT !.state = "START_RECORD"] ELSE p

\* The characters s[k..] fed to the parser one by one.  (The next parser
\* state is bound through a singleton set so that it is evaluated once.)
RECURSIVE ProcessChars(_, _, _)
ProcessChars(p, s, k) ==
    IF k > Len(s) THEN p
    ELSE CHOOSE r \in { ProcessChars(q, s, k + 1) :
                            q \in { parse_process_char(p, s[k]) } } : TRUE

\* One line of the file as the reader sees it: its text, the line break,
\* then the end-of-line sentinel.
ProcessLine(p, line) == ProcessChars(p, line \o <<NL, EOL>>, 1)

\* Reader_iternext, repeated until the file is exhausted: lines are consumed
\* until the parser is back in START_RECORD; at end of input a pending field
\* or an open quoted field is saved and the row is yielded.
RECURSIVE ReadRows(_, _, _, _)
ReadRows(lines, k, p, acc) ==
    IF k > Len(lines)
    THEN IF p.field # <<>> \/ p.state = "IN_QUOTED_FIELD"
         THEN Append(acc, parse_save_field(p).fields)
         ELSE acc
    ELSE CHOOSE r \in
             { IF q.state = "START_RECORD"
               THEN ReadRows(lines, k + 1, ParserReset, Append(acc, q.fields))
               ELSE ReadRows(lines, k + 1, q, acc) :
                   q \in { ProcessLine(p, lines[k]) } } : TRUE

csv_reader(lines) == ReadRows(lines, 1, ParserReset, <<>>)

(***************************************************************************)
(* read_samples: per-row helpers                                           *)
(***************************************************************************)
Whitespace == {Space, NL}

RECURSIVE lstrip(_)
lstrip(s) ==
    IF s # <<>> /\ Head(s) \in Whitespace THEN lstrip(Tail(s)) ELSE s

RECURSIVE rstrip(_)
rstrip(s) ==
    IF s # <<>> /\ s[Len(s)] \in Whitespace
    THEN rstrip(SubSeq(s, 1, Len(s) - 1)) ELSE s

\* variant: only leading whitespace is removed
strip_left_only(s) == lstrip(s)

\* str.strip()
strip(s) == rstrip(lstrip(s))

\* os.path.exists
path_exists(p) == p \in ExistingFiles

ExpectedColumns == 3

\* variant: only rows that are too short are rejected
WrongColumnCount_too_few(row) == Len(row) < ExpectedColumns

\* line 84
WrongColumnCount(row) == Len(row) # ExpectedColumns

\* line 88
Unpack(row) ==
    [sample_name |-> strip(row[1]), read1 |-> strip(row[2]),
     read2 |-> strip(row[3])]

ColumnsWarning(n, row) ==
    [kind |-> "columns", line_num |-> n, got |-> Len(row)]

Read1Warning(s) ==
    [kind |-> "read1", sample_name |-> s.sample_name, path |-> s.read1]

Read2Warning(s) ==
    [kind |-> "read2", sample_name |-> s.sample_name, path |-> s.read2]

\* variant: the read2 check also runs when read1 is missing
RowWarnings_both(n, row) ==
    IF Len(row) # ExpectedColumns THEN << ColumnsWarning(n, row) >>
    ELSE LET s == Unpack(row)
         IN  (IF ~path_exists(s.read1) THEN << Read1Warning(s) >> ELSE <<>>)
             \o (IF ~path_exists(s.read2) THEN << Read2Warning(s) >> ELSE <<>>)

\* What the loop body prints for row number n (lines 84-96).
RowWarnings(n, row) ==
    IF WrongColumnCount(row) THEN << ColumnsWarning(n, row) >>
    ELSE LET s == Unpack(row)
         IN  IF ~path_exists(s.read1) THEN << Read1Warning(s) >>
             ELSE IF ~path_exists(s.read2) THEN << Read2Warning(s) >>
             ELSE <<>>

\* Whether the loop body reaches samples.append (line 98).
RowAccepted(row) ==
    /\ ~WrongColumnCount(row)
    /\ path_exists(Unpack(row).read1)
    /\ path_exists(Unpack(row).read2)

\* read_samples on a file that can be read to its end (lines 78-107).
RECURSIVE CollectSamples(_, _)
CollectSamples(rs, k) ==
    IF k > Len(rs) THEN <<>>
    ELSE (IF RowAccepted(rs[k]) THEN << Unpack(rs[k]) >> ELSE <<>>)
         \o CollectSamples(rs, k + 1)

read_samples(lines) == CollectSamples(csv_reader(lines), 1)

(***************************************************************************)
(* run_getorganelle, generate_summary and main: helpers                    *)
(***************************************************************************)
\* variant: only a non-zero exit status counts as a failure
run_getorganelle_launch_ok(o) == o # "nonzero"

\* Return value of run_getorganelle for each way subprocess.run can end.
run_getorganelle(o) ==
    CASE o = "exit0"   -> TRUE      \* line 146
      [] o = "nonzero" -> FALSE     \* CalledProcessError, line 151
      [] OTHER         -> FALSE     \* any other Exception, line 156

\* variant: the loop never breaks
StopBatch_never(success) == FALSE

\* variant: the loop breaks on every failure, whatever the flag
StopBatch_any_failure(success) == ~success

\* line 223
StopBatch(success) == ~success /\ ~continue_on_error

\* variant: the empty-list check is missing
NoSamples_unchecked(s) == FALSE

\* line 198: "if not samples"
NoSamples(s) == s = <<>>

RECURSIVE CountSuccessful(_)
CountSuccessful(rs) ==
    IF rs = <<>> THEN 0
    ELSE (IF Head(rs).success THEN 1 ELSE 0) + CountSuccessful(Tail(rs))

\* variant: every sample is reported as a success
StatusText_always_success(success) == "SUCCESS"

\* line 180
StatusText(success) == IF success THEN "SUCCESS" ELSE "FAILED"

\* lines 168-181: the counts and the per-sample lines of the report
SummaryContent(rs) ==
    [total      |-> Len(rs),
     successful |-> CountSuccessful(rs),
     failed     |-> Len(rs) - CountSuccessful(rs),
     details    |-> [k \in 1..Len(rs) |->
                       [sample_name |-> rs[k].sample_name,
                        status |-> StatusText(rs[k].success)]]]

\* variant: the number of failures is used as the exit status
ExitStatus_count(failed) == failed

\* line 250
ExitStatus(failed) == IF failed = 0 THEN 0 ELSE 1

(***************************************************************************)
(* State machine                                                           *)
(***************************************************************************)
Init ==
    /\ sample_file \in [state : FileStates, lines : Manifests]
    /\ sample_file.state = "missing" => sample_file.lines = <<>>
    /\ continue_on_error \in BOOLEAN
    /\ pc = "makedirs"
    /\ output_dir_made = FALSE
    /\ rows = <<>>
    /\ line_num = 0
    /\ samples = <<>>
    /\ warnings = <<>>
    /\ outcome = <<>>
    /\ i = 0
    /\ calls = <<>>
    /\ results = <<>>
    /\ summary = <<>>
    /\ summary_calls = 0
    /\ exit_code = -1

\* sys.exit(code)
SysExit(code) == pc' = "exited" /\ exit_code' = code

\* main, line 192
MakeDirs ==
    /\ pc = "makedirs"
    /\ output_dir_made' = TRUE
    /\ pc' = "open"
    /\ UNCHANGED <<sample_file, continue_on_error, rows, line_num, samples,
                   warnings, outcome, i, calls, results, summary,
                   summary_calls, exit_code>>

\* read_samples, lines 81 and 100-102: open() raises FileNotFoundError
OpenFileNotFound ==
    /\ pc = "open"
    /\ sample_file.state = "missing"
    /\ SysExit(1)
    /\ UNCHANGED <<sample_file, continue_on_error, output_dir_made, rows,
                   line_num, samples, warnings, outcome, i, calls, results,
                   summary, summary_calls>>

\* read_samples, lines 81-82: the file opens and the reader is created
OpenOk ==
    /\ pc = "open"
    /\ sample_file.state # "missing"
    /\ rows' = csv_reader(sample_file.lines)
    /\ pc' = "rows"
    /\ UNCHANGED <<sample_file, continue_on_error, output_dir_made, line_num,
                   samples, warnings, outcome, i, calls, results, summary,
                   summary_calls, exit_code>>

\* read_samples, lines 103-105: open() or the iteration raises another
\* exception (permissions, encoding); an unreadable file never reads to its end
ReadError ==
    /\ pc \in {"open", "rows"}
    /\ sample_file.state = "unreadable"
    /\ SysExit(1)
    /\ UNCHANGED <<sample_file, continue_on_error, output_dir_made, rows,
                   line_num, samples, warnings, outcome, i, calls, results,
                   summary, summary_calls>>

\* read_samples, lines 83-98: one iteration of the for loop
ReadRow ==
    /\ pc = "rows"
    /\ line_num < Len(rows)
    /\ LET n   == line_num + 1
           row == rows[n]
       IN  /\ line_num' = n
           /\ warnings' = warnings \o RowWarnings(n, row)
           /\ samples' = IF RowAccepted(row)
                         THEN Append(samples, Unpack(row)) ELSE samples
    /\ UNCHANGED <<sample_file, continue_on_error, pc, output_dir_made, rows,
                   outcome, i, calls, results, summary, summary_calls,
                   exit_code>>

ReadFinished ==
    /\ pc = "rows"
    /\ sample_file.state = "ok"
    /\ line_num = Len(rows)

\* read_samples returns (line 107); main, lines 198-200: no valid samples
NoValidSamples ==
    /\ ReadFinished
    /\ NoSamples(samples)
    /\ SysExit(1)
    /\ UNCHANGED <<sample_file, continue_on_error, output_dir_made, rows,
                   line_num, samples, warnings, outcome, i, calls, results,
                   summary, summary_calls>>

\* read_samples returns (line 107); main, lines 198-213: the loop is entered.
\* The behaviour of the external process for each sample is fixed here.
StartLoop ==
    /\ ReadFinished
    /\ ~NoSamples(samples)
    /\ outcome' \in [1..Len(samples) -> Outcomes]
    /\ results' = <<>>
    /\ i' = 1
    /\ pc' = "loop"
    /\ UNCHANGED <<sample_file, continue_on_error, output_dir_made, rows,
                   line_num, samples, warnings, calls, summary, summary_calls,
                   exit_code>>

\* main, line 216 and run_getorganelle, lines 117-137: subprocess.run is called
RunLaunch ==
    /\ pc = "loop"
    /\ i <= Len(samples)
    /\ calls' = Append(calls, i)
    /\ pc' = "running"
    /\ UNCHANGED <<sample_file, continue_on_error, output_dir_made, rows,
                   line_num, samples, warnings, outcome, i, results, summary,
                   summary_calls, exit_code>>

\* main, lines 218-225, with the value run_getorganelle returned
Record(success) ==
    /\ results' = Append(results, [sample_name |-> samples[i].sample_name,
                                   success |-> success])
    /\ IF StopBatch(success)
       THEN pc' = "summary" /\ i' = i
       ELSE pc' = "loop" /\ i' = i + 1
    /\ UNCHANGED <<sample_file, continue_on_error, output_dir_made, rows,
                   line_num, samples, warnings, outcome, calls, summary,
                   summary_calls, exit_code>>

\* run_getorganelle, lines 145-146
RunSuccess ==
    /\ pc = "running"
    /\ outcome[i] = "exit0"
    /\ Record(run_getorganelle("exit0"))

\* run_getorganelle, lines 148-151
RunCalledProcessError ==
    /\ pc = "running"
    /\ outcome[i] = "nonzero"
    /\ Record(run_getorganelle("nonzero"))

\* run_getorganelle, lines 153-156
RunException ==
    /\ pc = "running"
    /\ outcome[i] = "oserror"
    /\ Record(run_getorganelle("oserror"))

\* main, line 213: the for loop is exhausted
LoopEnd ==
    /\ pc = "loop"
    /\ i > Len(samples)
    /\ pc' = "summary"
    /\ UNCHANGED <<sample_file, continue_on_error, output_dir_made, rows,
                   line_num, samples, warnings, outcome, i, calls, results,
                   summary, summary_calls, exit_code>>

\* main, line 232 and generate_summary, lines 159-184
GenerateSummary ==
    /\ pc = "summary"
    /\ summary' = << SummaryContent(results) >>
    /\ summary_calls' = summary_calls + 1
    /\ pc' = "exit"
    /\ UNCHANGED <<sample_file, continue_on_error, output_dir_made, rows,
                   line_num, samples, warnings, outcome, i, calls, results,
                   exit_code>>

\* main, lines 235-250
Exit ==
    /\ pc = "exit"
    /\ LET total      == Len(results)
           successful == CountSuccessful(results)
           failed     == total - successful
       IN  SysExit(ExitStatus(failed))
    /\ UNCHANGED <<sample_file, continue_on_error, output_dir_made, rows,
                   line_num, samples, warnings, outcome, i, calls, results,
                   summary, summary_calls>>

Next ==
    \/ MakeDirs
    \/ OpenFileNotFound
    \/ OpenOk
    \/ ReadError
    \/ ReadRow
    \/ NoValidSamples
    \/ StartLoop
    \/ RunLaunch
    \/ RunSuccess
    \/ RunCalledProcessError
    \/ RunException
    \/ LoopEnd
    \/ GenerateSummary
    \/ Exit

Spec == Init /\ [][Next]_vars

\* The program is sequential and every step it takes returns; in particular
\* every call of the external process terminates.
FairSpec == Spec /\ WF_vars(Next)

(***************************************************************************)
(* Vocabulary of the properties                                            *)
(***************************************************************************)
Ints(n) == [j \in 1..n |-> j]

\* main() has entered its for loop
LoopEntered == i >= 1

\* read_samples is at its return statement (line 107)
ReadReturned == ReadFinished

FailingSamples == { k \in DOMAIN outcome : outcome[k] # "exit0" }

FirstFailure == CHOOSE k \in FailingSamples : \A j \in FailingSamples : k <= j

\* the result entries main() is expected to hold for samples 1..n
ExpectedResults(n) ==
    [k \in 1..n |-> [sample_name |-> samples[k].sample_name,
                     success |-> outcome[k] = "exit0"]]

\* the report lines expected for samples 1..n
ExpectedDetails(n) ==
    [k \in 1..n |-> [sample_name |-> samples[k].sample_name,
                     status |-> IF outcome[k] = "exit0"
                                THEN "SUCCESS" ELSE "FAILED"]]

\* PENDING -> RUNNING -> SUCCEEDED | FAILED, read off main()'s position
Status(k) ==
    IF k <= Len(results)
    THEN IF results[k].success THEN "SUCCEEDED" ELSE "FAILED"
    ELSE IF pc = "running" /\ i = k THEN "RUNNING" ELSE "PENDING"

\* A manifest line split on every comma, quotes given no meaning.
RECURSIVE SplitCommas(_)
SplitCommas(s) ==
    IF \A k \in 1..Len(s) : s[k] # Comma THEN << s >>
    ELSE LET c == CHOOSE k \in 1..Len(s) :
                    s[k] = Comma /\ \A j \in 1..(k - 1) : s[j] # Comma
         IN  << SubSeq(s, 1, c - 1) >> \o SplitCommas(SubSeq(s, c + 1, Len(s)))

\* A field without its leading and trailing blanks.
Trim(s) ==
    LET inked == { k \in 1..Len(s) : s[k] # Space }
    IN  IF inked = {} THEN <<>>
        ELSE SubSeq(s, CHOOSE k \in inked : \A j \in inked : k <= j,
                       CHOOSE k \in inked : \A j \in inked : k >= j)

LineRecord(line) ==
    LET f == SplitCommas(line)
    IN  [sample_name |-> Trim(f[1]), read1 |-> Trim(f[2]), read2 |-> Trim(f[3])]

ThreeFields(line) == Len(SplitCommas(line)) = 3

LineUsable(line) ==
    /\ ThreeFields(line)
    /\ LineRecord(line).read1 \in ExistingFiles
    /\ LineRecord(line).read2 \in ExistingFiles

\* The records of the usable lines among the first n, in line order.
RECURSIVE UsableRecords(_, _)
UsableRecords(lines, n) ==
    IF n = 0 THEN <<>>
    ELSE UsableRecords(lines, n - 1)
         \o (IF LineUsable(lines[n]) THEN << LineRecord(lines[n]) >> ELSE <<>>)

QuoteFree(lines) ==
    \A k \in 1..Len(lines) : \A j \in 1..Len(lines[k]) : lines[k][j] # Quote

WellFormedLine == <<"s", Comma, "a", Comma, "b">>

ReplaceLine(lines, k, line) == [lines EXCEPT ![k] = line]

RemoveAt(s, k) == SubSeq(s, 1, k - 1) \o SubSeq(s, k + 1, Len(s))

HasColumnsWarning(n) ==
    \E w \in 1..Len(warnings) :
        warnings[w].kind = "columns" /\ warnings[w].line_num = n

(***************************************************************************)
(* Properties of the batch controller                                      *)
(***************************************************************************)
\* C1: with continue-on-error unset, if sample k is the first whose run
\* fails, subprocess.run is called for samples 1..k only, once each and in
\* manifest order, samples k+1..N are never run, the results and the report
\* hold exactly the entries of samples 1..k in order, and the exit code is 1.
C1_StopAtFirstFailure ==
    (LoopEntered /\ ~continue_on_error /\ FailingSamples # {}) =>
        LET k == FirstFailure
        IN  /\ \E n \in 0..k : calls = Ints(n)
            /\ Len(results) <= k
            /\ pc = "exited" =>
                  /\ calls = Ints(k)
                  /\ results = ExpectedResults(k)
                  /\ summary # <<>>
                  /\ summary[1].details = ExpectedDetails(k)
                  /\ exit_code = 1

C1_Witness ==
    /\ pc = "exited"
    /\ ~continue_on_error
    /\ Len(samples) = MaxLines
    /\ FailingSamples # {}
    /\ FirstFailure = MaxLines - 1
    /\ Len(calls) = MaxLines - 1
    /\ exit_code = 1

\* C2: with continue-on-error set, all N samples are run, once each and
\* strictly in manifest order (a run starts only after the previous one has
\* ended), and the results and the report hold N entries in manifest order.
C2_ContinueRunsAll ==
    (LoopEntered /\ continue_on_error) =>
        LET N == Len(samples)
        IN  /\ \E n \in 0..N : calls = Ints(n)
            /\ Len(calls) = Len(results) + (IF pc = "running" THEN 1 ELSE 0)
            /\ results = ExpectedResults(Len(results))
            /\ pc = "exited" =>
                  /\ calls = Ints(N)
                  /\ Len(results) = N
                  /\ summary # <<>>
                  /\ summary[1].total = N
                  /\ summary[1].details = ExpectedDetails(N)

C2_Witness ==
    /\ pc = "exited"
    /\ LoopEntered
    /\ continue_on_error
    /\ Len(samples) = MaxLines
    /\ outcome[1] # "exit0"
    /\ outcome[MaxLines] = "exit0"
    /\ Len(calls) = MaxLines
    /\ Len(summary[1].details) = MaxLines

\* C3: in every run that reaches the report step the reported counts satisfy
\* total = successful + failed, total being the number of results and
\* successful the number of them with success true, and the exit code is 0
\* if and only if failed = 0, and 1 otherwise.
C3_CountsAndExitCode ==
    (summary # <<>>) =>
        LET r       == summary[1]
            good    == { k \in 1..Len(results) : results[k].success }
            bad     == { k \in 1..Len(results) : ~results[k].success }
        IN  /\ r.total = Len(results)
            /\ r.successful = Cardinality(good)
            /\ r.failed = Cardinality(bad)
            /\ r.total = r.successful + r.failed
            /\ pc = "exited" =>
                  /\ exit_code \in {0, 1}
                  /\ exit_code = 0 <=> r.failed = 0

C3_Witness ==
    /\ pc = "exited"
    /\ summary # <<>>
    /\ summary[1].failed >= 1
    /\ summary[1].successful >= 1
    /\ exit_code = 1

\* C4: if the manifest cannot be opened or read, or read_samples returns an
\* empty list, the run ends with exit code 1, the external process is never
\* called and no report is written; creating the output directory is the
\* only effect on the filesystem.
C4_FatalStartup ==
    /\ (sample_file.state # "ok") => (~LoopEntered /\ calls = <<>> /\ summary = <<>>)
    /\ (pc = "exited" /\ (sample_file.state # "ok" \/ samples = <<>>)) =>
          /\ exit_code = 1
          /\ calls = <<>>
          /\ results = <<>>
          /\ summary = <<>>
          /\ summary_calls = 0
          /\ output_dir_made

C4_Witness ==
    /\ pc = "exited"
    /\ sample_file.state = "ok"
    /\ Len(sample_file.lines) = MaxLines
    /\ samples = <<>>
    /\ Len(warnings) = MaxLines
    /\ exit_code = 1
    /\ summary = <<>>

(***************************************************************************)
(* Properties of the manifest reader                                       *)
(***************************************************************************)
\* C5 (as stated): for every manifest, read_samples returns exactly the
\* records of the lines that have exactly 3 comma-separated fields and whose
\* read1 and read2 exist, in line order, each field whitespace-trimmed.
C5_Original ==
    ReadReturned =>
        samples = UsableRecords(sample_file.lines, Len(sample_file.lines))

\* C5 (amended): the same for every manifest in which no line contains a
\* double-quote character; there, after n rows, the reader holds the records
\* of the usable lines among the first n lines.
C5_QuoteFreeSubsequence ==
    (pc = "rows" /\ QuoteFree(sample_file.lines)) =>
        /\ samples = UsableRecords(sample_file.lines, line_num)
        /\ ReadReturned =>
              samples = UsableRecords(sample_file.lines, Len(sample_file.lines))

C5_Witness ==
    /\ ReadReturned
    /\ QuoteFree(sample_file.lines)
    /\ Len(sample_file.lines) = MaxLines
    /\ ~ThreeFields(sample_file.lines[1])
    /\ Len(samples) = MaxLines - 1
    /\ \E k \in 2..MaxLines : Space \in { sample_file.lines[k][j] :
                                           j \in 1..Len(sample_file.lines[k]) }

\* What C6 says of line k of the manifest: it is skipped with a warning, and
\* the manifest with line k made well-formed yields the same records plus
\* one, the record of line k.
SkippedAlone(k) ==
    LET lines    == sample_file.lines
        repaired == read_samples(ReplaceLine(lines, k, WellFormedLine))
        pos      == Len(UsableRecords(lines, k - 1)) + 1
    IN  /\ HasColumnsWarning(k)
        /\ Len(samples) = Len(repaired) - 1
        /\ pos <= Len(repaired)
        /\ samples = RemoveAt(repaired, pos)

\* C6 (as stated): every line whose number of comma-separated fields is not
\* 3, lines with quoted commas included, is skipped with a warning, does not
\* abort the read, leaves the other lines' acceptance alone and lowers the
\* number of records by exactly one against the same line well-formed.
C6_Original ==
    /\ (sample_file.state = "ok" /\ pc = "exited") => line_num = Len(rows)
    /\ ReadReturned =>
          \A k \in 1..Len(sample_file.lines) :
              ~ThreeFields(sample_file.lines[k]) => SkippedAlone(k)

\* C6 (amended): the same for every line of a manifest in which no line
\* contains a double-quote character.
C6_QuoteFreeSkip ==
    /\ (sample_file.state = "ok" /\ pc = "exited") => line_num = Len(rows)
    /\ (ReadReturned /\ QuoteFree(sample_file.lines)) =>
          \A k \in 1..Len(sample_file.lines) :
              ~ThreeFields(sample_file.lines[k]) => SkippedAlone(k)

C6_Witness ==
    /\ ReadReturned
    /\ QuoteFree(sample_file.lines)
    /\ Len(sample_file.lines) = MaxLines
    /\ Len(SplitCommas(sample_file.lines[1])) > ExpectedColumns
    /\ LineUsable(sample_file.lines[MaxLines])
    /\ Len(samples) = 1
    /\ HasColumnsWarning(1)

\* The trimmed fields of a 3-field row, and which of its files are missing.
Read1Missing(row) == strip(row[2]) \notin ExistingFiles
Read2Missing(row) == strip(row[3]) \notin ExistingFiles

MissingWarning(kind, row, path) ==
    [kind |-> kind, sample_name |-> strip(row[1]), path |-> strip(path)]

\* one warning for each missing file of the row
RECURSIVE IndependentWarnings(_)
IndependentWarnings(n) ==
    IF n = 0 THEN <<>>
    ELSE IndependentWarnings(n - 1) \o
         (IF Len(rows[n]) # ExpectedColumns THEN << ColumnsWarning(n, rows[n]) >>
          ELSE (IF Read1Missing(rows[n])
                THEN << MissingWarning("read1", rows[n], rows[n][2]) >> ELSE <<>>)
               \o (IF Read2Missing(rows[n])
                   THEN << MissingWarning("read2", rows[n], rows[n][3]) >> ELSE <<>>))

\* one warning per rejected row: read1's if read1 is missing, otherwise read2's
RECURSIVE FirstMissingWarnings(_)
FirstMissingWarnings(n) ==
    IF n = 0 THEN <<>>
    ELSE FirstMissingWarnings(n - 1) \o
         (IF Len(rows[n]) # ExpectedColumns THEN << ColumnsWarning(n, rows[n]) >>
          ELSE IF Read1Missing(rows[n])
               THEN << MissingWarning("read1", rows[n], rows[n][2]) >>
          ELSE IF Read2Missing(rows[n])
               THEN << MissingWarning("read2", rows[n], rows[n][3]) >>
          ELSE <<>>)

\* the number of 3-field rows among the first n with both files present
CompleteRows(n) ==
    Cardinality({ k \in 1..n : /\ Len(rows[k]) = ExpectedColumns
                               /\ ~Read1Missing(rows[k])
                               /\ ~Read2Missing(rows[k]) })

\* C7 (as stated): for every 3-field row read1 and read2 are checked
\* independently, a warning naming the sample and the path is printed for
\* each of the two that is missing (two when both are), and the record is
\* left out whenever at least one is missing.
C7_Original ==
    pc = "rows" =>
    /\ warnings = IndependentWarnings(line_num)
    /\ Len(samples) = CompleteRows(line_num)

\* C7 (amended): for every 3-field row read1 is checked first; if it is
\* missing one warning naming the sample and read1 is printed and read2 is
\* not checked; otherwise, if read2 is missing, one warning naming the sample
\* and read2 is printed; the record is left out whenever at least one of the
\* two is missing.
C7_FirstMissingOnly ==
    pc = "rows" =>
    /\ warnings = FirstMissingWarnings(line_num)
    /\ Len(samples) = CompleteRows(line_num)

C7_Witness ==
    /\ line_num >= 2
    /\ Len(rows[1]) = ExpectedColumns
    /\ Read1Missing(rows[1]) /\ Read2Missing(rows[1])
    /\ Len(rows[2]) = ExpectedColumns
    /\ ~Read1Missing(rows[2]) /\ Read2Missing(rows[2])
    /\ Len(warnings) = 2
    /\ warnings[1].kind = "read1"
    /\ warnings[2].kind = "read2"
    /\ samples = <<>>

\* C9: every record read_samples returns has a non-empty name, and no two
\* records share a name.
C9_NamesUniqueNonEmpty ==
    ReadReturned =>
        /\ \A k \in 1..Len(samples) : samples[k].sample_name # <<>>
        /\ \A j, k \in 1..Len(samples) :
              j # k => samples[j].sample_name # samples[k].sample_name

(***************************************************************************)
(* Properties of the report and of the sample runner                       *)
(***************************************************************************)
ReportInOrder ==
    /\ summary_calls <= 1
    /\ summary_calls = Len(summary)
    /\ (summary # <<>>) =>
          /\ pc \in {"exit", "exited"}
          /\ Len(calls) = Len(results)
          /\ summary[1].details = ExpectedDetails(Len(results))
    /\ (summary = <<>>) => (exit_code = -1 \/ ~LoopEntered)
    /\ (pc = "exited" /\ LoopEntered) => summary_calls = 1

\* C8: in every run that enters the loop, generate_summary is called exactly
\* once, after the last sample run has ended and before the exit code is
\* returned, over all accumulated results: one line per attempted sample in
\* attempt order, SUCCESS exactly when its run succeeded and FAILED
\* otherwise; every external process terminating, the report is eventually
\* written.
C8_ReportOnceAndEventually ==
    /\ []ReportInOrder
    /\ LoopEntered ~> (summary # <<>>)

C8_Witness ==
    /\ pc = "exit"
    /\ ~continue_on_error
    /\ Len(samples) = MaxLines
    /\ Len(summary[1].details) = MaxLines - 1
    /\ summary[1].details[1].status = "FAILED"
    /\ exit_code = -1

RunnerResults ==
    LoopEntered =>
        \A k \in 1..Len(samples) :
            LET n == Cardinality({ c \in 1..Len(calls) : calls[c] = k })
            IN  /\ n <= 1
                /\ Status(k) = "PENDING" <=> n = 0
                /\ k <= Len(results) =>
                      results[k].success = (outcome[k] = "exit0")

StatusStep ==
    \A k \in 1..MaxLines :
        Status(k)' # Status(k) =>
            \/ Status(k) = "PENDING" /\ Status(k)' = "RUNNING"
            \/ Status(k) = "RUNNING" /\ Status(k)' \in {"SUCCEEDED", "FAILED"}

\* C10: run_getorganelle calls the external process once per call, returns
\* true exactly when the process started and exited with status 0, returns
\* false on a non-zero exit, a launch failure or any other fault without
\* raising to main(); each sample goes PENDING -> RUNNING -> SUCCEEDED or
\* FAILED and a terminal state never changes.
C10_RunOnceAndClassify ==
    /\ []RunnerResults
    /\ []((pc = "exited" /\ LoopEntered) => summary_calls = 1)
    /\ [][StatusStep]_vars

C10_Witness ==
    /\ pc = "exited"
    /\ LoopEntered
    /\ Len(samples) = MaxLines
    /\ Len(results) = MaxLines
    /\ outcome[1] = "oserror"
    /\ outcome[MaxLines] = "exit0"
    /\ Status(1) = "FAILED"
    /\ Status(MaxLines) = "SUCCEEDED"

====
